---- MODULE Spec2Model ----
(***************************************************************************)
(* Model of the vial label extraction pipeline (extract.py,                *)
(* parse_fields.py, spreadsheet.py).                                       *)
(*                                                                         *)
(* main() discovers the images, process_all() runs one process_one task    *)
(* per image under an asyncio Semaphore, each task doing a vision call and *)
(* then (when there is text) a parse call, the as_completed loop collects  *)
(* the rows in completion order, and write_spreadsheet() renders them.     *)
(*                                                                         *)
(* Python values are encoded as follows: str -> TLA+ string, None -> the   *)
(* string None (below), True/False -> "True"/"False", int -> Int, dict ->  *)
(* a function from keys to values, wrapped with its type by PyDict so that *)
(* a JSON value that is not an object (PyList) can be told from one.       *)
(* File names are sequences of one-character strings.                      *)
(***************************************************************************)
EXTENDS Integers, Sequences, FiniteSets, TLC

(* ------------------------------ bounds --------------------------------- *)

\* At most this many image files are present under input_dir.
MaxImages == 2

\* config["batch_size"] ranges over 1..MaxBatch.
MaxBatch == 2

(* --------------------------- Python values ----------------------------- *)

None == "<None>"

PyTrue == "True"

PyFalse == "False"

PyDict(f) == [kind |-> "dict", items |-> f]

PyList == [kind |-> "list"]

EmptyDict == [k \in {} |-> None]

\* {**a, **b}: the keys of both, b's value where both have the key.
DictMerge(a, b) ==
    [k \in (DOMAIN a) \cup (DOMAIN b) |-> IF k \in DOMAIN b THEN b[k] ELSE a[k]]

\* d.get(k): None when the key is missing.
DictGet(d, k) == IF k \in DOMAIN d THEN d[k] ELSE None

\* Truthy with the empty string taken for text (only None is falsy).
Truthy_OnlyNoneFalsy(v) == v # None

\* Truth value of a str-or-None value: None and "" are falsy.
Truthy(v) == v # None /\ v # ""

(* ------------------------------ strings -------------------------------- *)

\* The characters of the file names of the model, in code point order.
Alphabet ==
    << ".", "0", "1", "2", "4", "7", "8", "D", "L", "_",
       "a", "b", "c", "d", "e", "f", "g", "i", "j", "l",
       "n", "o", "p", "r", "t", "u", "v" >>

Ord(c) == CHOOSE i \in 1..Len(Alphabet) : Alphabet[i] = c

Digits == {"0", "1", "2", "4", "7", "8"}

\* str.lower() on the letters the model uses.
Lower(c) == IF c = "D" THEN "d" ELSE IF c = "L" THEN "l" ELSE c

RECURSIVE Str(_)
\* The sequence of characters as one string.
Str(s) == IF s = <<>> THEN "" ELSE Head(s) \o Str(Tail(s))

\* a < b for str (lexicographic by code point).
StrLess(a, b) ==
    \E n \in 0..Len(a) :
        /\ n <= Len(b)
        /\ \A j \in 1..n : a[j] = b[j]
        /\ \/ n = Len(a) /\ n < Len(b)
           \/ n < Len(a) /\ n < Len(b) /\ Ord(a[n + 1]) < Ord(b[n + 1])

\* sorted(paths) for a set of distinct names.
Sorted(S) ==
    CHOOSE q \in [1..Cardinality(S) -> S] :
        \A i, j \in 1..Cardinality(S) : i < j => StrLess(q[i], q[j])

(* ------------------------- Filename Correlator ------------------------- *)

\* Index of the last "." of the name, 0 when there is none.
RFindDot(name) ==
    IF \E i \in 1..Len(name) : name[i] = "."
    THEN CHOOSE i \in 1..Len(name) :
            name[i] = "." /\ \A j \in (i + 1)..Len(name) : name[j] # "."
    ELSE 0

\* Path(filename).stem: the name without its last suffix.
Stem(name) ==
    LET i == RFindDot(name)
    IN  IF 1 < i /\ i < Len(name) THEN SubSeq(name, 1, i - 1) ELSE name

\* End of the maximal run of digits of s that starts at p.
RunEnd(s, p) ==
    CHOOSE e \in p..Len(s) :
        /\ \A j \in p..e : s[j] \in Digits
        /\ e = Len(s) \/ s[e + 1] \notin Digits

VendorToken == <<"d", "u", "n", "n", "l", "a", "b">>

\* The pattern DunnLab0*(\d+) with IGNORECASE matches s at position p.
VendorAt(s, p) ==
    /\ p + Len(VendorToken) <= Len(s)
    /\ \A j \in 1..Len(VendorToken) : Lower(s[p + j - 1]) = VendorToken[j]
    /\ s[p + Len(VendorToken)] \in Digits

\* Group 1 of the vendor match at p: 0* is greedy but leaves \d+ one digit.
VendorGroup(s, p) ==
    LET b == p + Len(VendorToken)
        e == RunEnd(s, b)
        nz == {j \in b..e : s[j] # "0"}
        start == IF nz = {} THEN e ELSE CHOOSE j \in nz : \A k \in nz : j <= k
    IN  SubSeq(s, start, e)

\* extract_integer_from_filename without the vendor tier: the first run of
\* digits of the stem, whatever precedes it.
extract_integer_from_filename_FirstRun(name) ==
    LET stem == Stem(name)
        ds == {p \in 1..Len(stem) : stem[p] \in Digits}
    IN  IF ds # {}
        THEN LET p == CHOOSE p \in ds : \A q \in ds : p <= q
             IN  Str(SubSeq(stem, p, RunEnd(stem, p)))
        ELSE None

extract_integer_from_filename(name) ==
    LET stem == Stem(name)
        vs == {p \in 1..Len(stem) : VendorAt(stem, p)}
        ds == {p \in 1..Len(stem) : stem[p] \in Digits}
    IN  IF vs # {}
        THEN Str(VendorGroup(stem, CHOOSE p \in vs : \A q \in vs : p <= q))
        ELSE IF ds # {}
        THEN LET p == CHOOSE p \in ds : \A q \in ds : p <= q
             IN  Str(SubSeq(stem, p, RunEnd(stem, p)))
        ELSE None

(* ----------------------------- the inputs ------------------------------- *)

\* The image files that may be present under config["input_dir"].
Pool ==
    { <<"D","u","n","n","L","a","b","0","0","0","1","8","7",".","j","p","g">>,
      <<"n","o","c","o","d","e",".","p","n","g">>,
      <<"v","i","a","l","_","4","2","_","a","f","t","e","r",".","p","n","g">> }

\* extract_integer_from_filename(path.name) of every file, computed once.
FilenameInteger == [name \in Pool |-> extract_integer_from_filename(name)]

\* str(path) of every file, computed once.
PathStr == [name \in Pool |-> Str(name)]

\* --limit: absent (args.limit is None) or an integer.
NoLimit == [given |-> FALSE]

Limit(n) == [given |-> TRUE, n |-> n]

Limits == {NoLimit} \cup {Limit(n) : n \in -1..2}

\* What a call of client.chat.completions.create can do: raise, or return
\* a reply whose text is decoded by json.loads.
Raises(e) == [kind |-> "raise", err |-> e]

Replies(v) == [kind |-> "reply", value |-> v]

\* A reply text that json.loads rejects.
PyInvalid == [kind |-> "invalid"]

TransportError == "Connection error."

TimeoutError == "Request timed out."

JSONDecodeError == "Expecting value: line 1 column 1 (char 0)"

ImageError == "cannot identify image file"

VisionDicts ==
    { [datamatrix_integer |-> "187", transcribed_text |-> "Nanomia",
       transcription_confidence |-> 9, transcription_comments |-> ""],
      [datamatrix_integer |-> "42", transcribed_text |-> "",
       transcription_confidence |-> 5, transcription_comments |-> "blank label"],
      [datamatrix_integer |-> None,
       transcription_confidence |-> 2, transcription_comments |-> "cut off"],
      [image_file |-> "other.png", datamatrix_match |-> PyFalse,
       datamatrix_integer |-> "187", transcribed_text |-> "",
       transcription_confidence |-> 7, transcription_comments |-> "see other.png"] }

VisionReplies ==
    {Raises(TransportError), Raises(TimeoutError), Replies(PyInvalid), Replies(PyList)}
        \cup {Replies(PyDict(d)) : d \in VisionDicts}

ParseDicts ==
    { [sample_number |-> "12", date |-> None, sampling_event |-> None,
       species |-> "Nanomia bijuga", tissue |-> "nectophore", notes |-> "",
       parse_confidence |-> 8, parse_comments |-> ""],
      [image_file |-> "parsed.png", transcribed_text |-> "rewritten",
       species |-> None, parse_confidence |-> 5, parse_comments |-> "unsure"] }

ParseReplies ==
    {Raises(TransportError), Raises(TimeoutError), Replies(PyInvalid), Replies(PyList)}
        \cup {Replies(PyDict(d)) : d \in ParseDicts}

(* ------------------------------ the state ------------------------------ *)

VARIABLES
    input_dir,      \* the image files on disk (set of names)
    batch_size,     \* config["batch_size"]
    limit,          \* args.limit
    pcMain,         \* where main() is: "start", "process_all", "write", "exit"
    exit_status,    \* -1 while running, then the process's exit status
    image_paths,    \* main's image_paths, the items handed to process_all
    sem,            \* the Semaphore's value
    pc,             \* per task: "waiting", "vision", "parse", "returned", "raised", "cancelled"
    extracted,      \* per task: process_one's local extracted
    task_result,    \* per task: the row process_one returned
    completed,      \* the tasks in the order they finished (as_completed's queue)
    results,        \* process_all's results list
    progress,       \* the progress notifications printed so far
    vision_reply,   \* per task: how its vision stage ended (the call's reply, or resize_image raising)
    parse_reply,    \* per task: what its parse call did
    calls,          \* per task: the number of vision and parse calls issued
    sheet,          \* the rows write_spreadsheet put in the workbook
    saved,          \* the number of times the workbook was saved
    arg,            \* the argument of a function called on its own
    ret             \* what that call returned

vars ==
    << input_dir, batch_size, limit, pcMain, exit_status, image_paths, sem, pc,
       extracted, task_result, completed, results, progress, vision_reply,
       parse_reply, calls, sheet, saved, arg, ret >>

Unset == [kind |-> "unset"]

NoReply == [kind |-> "none"]

Tasks == 1..Len(image_paths)

Init ==
    /\ input_dir \in {S \in SUBSET Pool : Cardinality(S) <= MaxImages}
    /\ batch_size \in 1..MaxBatch
    /\ limit \in Limits
    /\ pcMain = "start"
    /\ exit_status = -1
    /\ image_paths = <<>>
    /\ sem = 0
    /\ pc = <<>>
    /\ extracted = <<>>
    /\ task_result = <<>>
    /\ completed = <<>>
    /\ results = <<>>
    /\ progress = <<>>
    /\ vision_reply = <<>>
    /\ parse_reply = <<>>
    /\ calls = <<>>
    /\ sheet = <<>>
    /\ saved = 0
    /\ arg = None
    /\ ret = None

(* ------------------------- the two inference stages -------------------- *)

Returned(v) == [ok |-> TRUE, value |-> v]

Raised(e) == [ok |-> FALSE, err |-> e]

\* json.loads of the reply text (after strip and fence removal).
json_loads(raw) == IF raw = PyInvalid THEN Raised(JSONDecodeError) ELSE Returned(raw)

\* extract_from_image: the awaited call raises, or its reply is decoded.
extract_from_image(reply) ==
    IF reply.kind = "raise" THEN Raised(reply.err) ELSE json_loads(reply.value)

\* parse_transcription: the awaited call raises, or its reply is decoded.
parse_transcription(reply) ==
    IF reply.kind = "raise" THEN Raised(reply.err) ELSE json_loads(reply.value)

\* ExtractionSentinel with the error left out of the comment and the
\* confidence left unset.
ExtractionSentinel_NoError(e) ==
    PyDict([datamatrix_integer |-> None, transcribed_text |-> None,
            transcription_confidence |-> 10,
            transcription_comments |-> ""])

\* The except branch of the extraction try.
ExtractionSentinel(e) ==
    PyDict([datamatrix_integer |-> None, transcribed_text |-> None,
            transcription_confidence |-> 0,
            transcription_comments |-> "Extraction failed: " \o e])

\* ParseSentinel that also clears the transcription.
ParseSentinel_ClearsText(e) ==
    PyDict([transcribed_text |-> None,
            sample_number |-> None, date |-> None, sampling_event |-> None,
            species |-> None, tissue |-> None, notes |-> "",
            parse_confidence |-> 0, parse_comments |-> "Parsing failed: " \o e])

\* The except branch of the parse try.
ParseSentinel(e) ==
    PyDict([sample_number |-> None, date |-> None, sampling_event |-> None,
            species |-> None, tissue |-> None, notes |-> "",
            parse_confidence |-> 0, parse_comments |-> "Parsing failed: " \o e])

\* The else branch of "if transcribed".
NoTextSentinel ==
    PyDict([sample_number |-> None, date |-> None, sampling_event |-> None,
            species |-> None, tissue |-> None, notes |-> "",
            parse_confidence |-> 0, parse_comments |-> "No transcribed text to parse."])

\* try: extracted = await extract_from_image(...) except Exception: sentinel.
ExtractedOf(reply) ==
    LET r == extract_from_image(reply)
    IN  IF r.ok THEN r.value ELSE ExtractionSentinel(r.err)

\* try: parsed = await parse_transcription(...) except Exception: sentinel.
ParsedOf(reply) ==
    LET r == parse_transcription(reply)
    IN  IF r.ok THEN r.value ELSE ParseSentinel(r.err)

\* HasText without the test: the parse call is issued whatever the text.
HasText_Always(ex) == TRUE

\* "if transcribed": extracted.get("transcribed_text") is truthy.
HasText(ex) == Truthy(DictGet(ex.items, "transcribed_text"))

\* DatamatrixMatch as a plain comparison: false when an identifier is absent.
DatamatrixMatch_TwoState(dm_from_image, filename_integer) ==
    IF dm_from_image = filename_integer THEN PyTrue ELSE PyFalse

\* The tri-state datamatrix_match.
DatamatrixMatch(dm_from_image, filename_integer) ==
    IF dm_from_image # None /\ filename_integer # None
    THEN IF dm_from_image = filename_integer THEN PyTrue ELSE PyFalse
    ELSE None

\* The dict process_one returns.
RowOf(path, ex, parsed) ==
    LET filename_integer == FilenameInteger[path]
        dm_from_image == DictGet(ex.items, "datamatrix_integer")
    IN  DictMerge(
            DictMerge(
                [image_file |-> PathStr[path],
                 filename_integer |-> filename_integer,
                 datamatrix_match |-> DatamatrixMatch(dm_from_image, filename_integer)],
                ex.items),
            parsed.items)

(* ------------------------------ Semaphore ------------------------------ *)

\* SemAcquirable off by one: a slot is given when none is left.
SemAcquirable_OffByOne(value) == value >= 0

\* Semaphore.acquire does not block.
SemAcquirable(value) == value > 0

\* Some task blocked on the semaphore can take a slot: it runs before any
\* reply is handled (its wake-up was scheduled first).
Runnable == SemAcquirable(sem) /\ \E i \in Tasks : pc[i] = "waiting"

\* The tasks between acquiring and releasing the semaphore.
InFlight == {i \in Tasks : pc[i] \in {"vision", "parse"}}

(* -------------------------------- main --------------------------------- *)

\* image_paths[:limit]
SliceTo(seq, n) ==
    IF n >= 0
    THEN SubSeq(seq, 1, IF n < Len(seq) THEN n ELSE Len(seq))
    ELSE SubSeq(seq, 1, IF Len(seq) + n > 0 THEN Len(seq) + n ELSE 0)

\* find_images: the image files under input_dir, sorted.
find_images == Sorted(input_dir)

\* "if args.limit: image_paths = image_paths[: args.limit]"
ApplyLimit(paths) ==
    IF limit.given /\ limit.n # 0 THEN SliceTo(paths, limit.n) ELSE paths

\* main up to asyncio.run(process_all(...)): no image ends the process with
\* status 1; otherwise process_all creates the semaphore and the tasks.
MainDiscover ==
    /\ pcMain = "start"
    /\ IF find_images = <<>>
       THEN /\ pcMain' = "exit"
            /\ exit_status' = 1
            /\ UNCHANGED << image_paths, sem, pc, extracted, task_result,
                            vision_reply, parse_reply, calls >>
       ELSE LET paths == ApplyLimit(find_images)
                T == 1..Len(paths)
            IN  /\ pcMain' = "process_all"
                /\ image_paths' = paths
                /\ sem' = batch_size
                /\ pc' = [i \in T |-> "waiting"]
                /\ extracted' = [i \in T |-> Unset]
                /\ task_result' = [i \in T |-> EmptyDict]
                /\ vision_reply' = [i \in T |-> NoReply]
                /\ parse_reply' = [i \in T |-> NoReply]
                /\ calls' = [i \in T |-> [vision |-> 0, parse |-> 0]]
                /\ UNCHANGED exit_status
    /\ UNCHANGED << input_dir, batch_size, limit, completed, results, progress,
                    sheet, saved >>
    /\ UNCHANGED << arg, ret >>

(* ----------------------------- process_one ----------------------------- *)

\* process_one returns row: the semaphore is released and the task done.
TaskReturns(i, row, s) ==
    /\ pc' = [pc EXCEPT ![i] = "returned"]
    /\ task_result' = [task_result EXCEPT ![i] = row]
    /\ sem' = s + 1
    /\ completed' = Append(completed, i)

\* An exception leaves process_one: the semaphore is released by the
\* "async with" and the task is done, holding the exception.
TaskRaises(i, s) ==
    /\ pc' = [pc EXCEPT ![i] = "raised"]
    /\ sem' = s + 1
    /\ completed' = Append(completed, i)
    /\ UNCHANGED task_result

\* process_one from the end of the extraction try to its next await or its
\* end, with s the semaphore's value while the task holds its slot and c the
\* calls the task has issued.
AfterExtraction(i, ex, s, c) ==
    /\ extracted' = [extracted EXCEPT ![i] = ex]
    /\ IF ex.kind # "dict"
       THEN \* extracted.get raises AttributeError
            /\ TaskRaises(i, s)
            /\ calls' = [calls EXCEPT ![i] = c]
       ELSE IF HasText(ex)
       THEN \* await parse_transcription(...)
            /\ pc' = [pc EXCEPT ![i] = "parse"]
            /\ calls' = [calls EXCEPT ![i] = [c EXCEPT !.parse = @ + 1]]
            /\ sem' = s
            /\ UNCHANGED << task_result, completed >>
       ELSE /\ TaskReturns(i, RowOf(image_paths[i], ex, NoTextSentinel), s)
            /\ calls' = [calls EXCEPT ![i] = c]

\* A task takes a slot of the semaphore and runs to its first await: the
\* vision call, unless resize_image raises.
StartTask(i) ==
    /\ pcMain = "process_all"
    /\ pc[i] = "waiting"
    /\ SemAcquirable(sem)
    /\ \/ /\ pc' = [pc EXCEPT ![i] = "vision"]
          /\ sem' = sem - 1
          /\ calls' = [calls EXCEPT ![i].vision = @ + 1]
          /\ UNCHANGED << extracted, task_result, completed, vision_reply >>
       \/ /\ vision_reply' = [vision_reply EXCEPT ![i] = Raises(ImageError)]
          /\ AfterExtraction(i, ExtractedOf(Raises(ImageError)), sem - 1, calls[i])
    /\ UNCHANGED << input_dir, batch_size, limit, pcMain, exit_status, image_paths,
                    results, progress, parse_reply, sheet, saved >>
    /\ UNCHANGED << arg, ret >>

\* The vision call of task i ends with reply.
VisionReturn(i, reply) ==
    /\ pcMain = "process_all"
    /\ pc[i] = "vision"
    /\ ~Runnable
    /\ vision_reply' = [vision_reply EXCEPT ![i] = reply]
    /\ AfterExtraction(i, ExtractedOf(reply), sem, calls[i])
    /\ UNCHANGED << input_dir, batch_size, limit, pcMain, exit_status, image_paths,
                    results, progress, parse_reply, sheet, saved >>
    /\ UNCHANGED << arg, ret >>

\* The parse call of task i ends with reply; the row is assembled.
ParseReturn(i, reply) ==
    /\ pcMain = "process_all"
    /\ pc[i] = "parse"
    /\ ~Runnable
    /\ parse_reply' = [parse_reply EXCEPT ![i] = reply]
    /\ LET parsed == ParsedOf(reply)
       IN  IF parsed.kind # "dict"
           THEN \* **parsed raises TypeError
                TaskRaises(i, sem)
           ELSE TaskReturns(i, RowOf(image_paths[i], extracted[i], parsed), sem)
    /\ UNCHANGED << input_dir, batch_size, limit, pcMain, exit_status, image_paths,
                    extracted, results, progress, vision_reply, calls, sheet, saved >>
    /\ UNCHANGED << arg, ret >>

(* ----------------------- the as_completed loop ------------------------- *)

\* NextCompleted in submission order: the loop awaits the tasks as listed.
NextCompleted_Submission == Len(results) + 1

\* The task the loop's next "await coro" yields.
NextCompleted == completed[Len(results) + 1]

\* CollectResult putting the row at the head of the list.
CollectResult_Prepend ==
    /\ pcMain = "process_all"
    /\ ~Runnable
    /\ Len(results) < Len(completed)
    /\ pc[NextCompleted] = "returned"
    /\ LET result == task_result[NextCompleted]
       IN  /\ results' = <<result>> \o results
           /\ progress' = Append(progress,
                  [n |-> Len(results) + 1, total |-> Len(image_paths),
                   image_file |-> result["image_file"]])
    /\ UNCHANGED << input_dir, batch_size, limit, pcMain, exit_status, image_paths,
                    sem, pc, extracted, task_result, completed, vision_reply,
                    parse_reply, calls, sheet, saved >>
    /\ UNCHANGED << arg, ret >>

\* One iteration of the loop: the row is appended and the progress printed.
CollectResult ==
    /\ pcMain = "process_all"
    /\ ~Runnable
    /\ Len(results) < Len(completed)
    /\ pc[NextCompleted] = "returned"
    /\ LET result == task_result[NextCompleted]
       IN  /\ results' = Append(results, result)
           /\ progress' = Append(progress,
                  [n |-> Len(results) + 1, total |-> Len(image_paths),
                   image_file |-> result["image_file"]])
    /\ UNCHANGED << input_dir, batch_size, limit, pcMain, exit_status, image_paths,
                    sem, pc, extracted, task_result, completed, vision_reply,
                    parse_reply, calls, sheet, saved >>
    /\ UNCHANGED << arg, ret >>

\* "await coro" raises the task's exception: it leaves process_all and
\* asyncio.run, which cancels the unfinished tasks, and main dies of it.
CollectException ==
    /\ pcMain = "process_all"
    /\ ~Runnable
    /\ Len(results) < Len(completed)
    /\ pc[NextCompleted] = "raised"
    /\ pcMain' = "exit"
    /\ exit_status' = 1
    /\ pc' = [i \in Tasks |->
                IF pc[i] \in {"waiting", "vision", "parse"} THEN "cancelled" ELSE pc[i]]
    /\ sem' = sem + Cardinality(InFlight)
    /\ UNCHANGED << input_dir, batch_size, limit, image_paths, extracted, task_result,
                    completed, results, progress, vision_reply, parse_reply, calls,
                    sheet, saved >>
    /\ UNCHANGED << arg, ret >>

\* ProcessAllReturn as soon as one row is collected.
ProcessAllReturn_Early ==
    /\ pcMain = "process_all"
    /\ Len(results) >= 1
    /\ pcMain' = "write"
    /\ UNCHANGED << input_dir, batch_size, limit, exit_status, image_paths, sem, pc,
                    extracted, task_result, completed, results, progress, vision_reply,
                    parse_reply, calls, sheet, saved >>
    /\ UNCHANGED << arg, ret >>

\* The loop is exhausted: process_all returns results to main.
ProcessAllReturn ==
    /\ pcMain = "process_all"
    /\ Len(results) = Len(image_paths)
    /\ pcMain' = "write"
    /\ UNCHANGED << input_dir, batch_size, limit, exit_status, image_paths, sem, pc,
                    extracted, task_result, completed, results, progress, vision_reply,
                    parse_reply, calls, sheet, saved >>
    /\ UNCHANGED << arg, ret >>

(* --------------------------- write_spreadsheet ------------------------- *)

COLUMNS ==
    << "image_file", "filename_integer", "datamatrix_integer", "datamatrix_match",
       "transcribed_text", "transcription_confidence", "transcription_comments",
       "sample_number", "date", "sampling_event", "species", "tissue", "notes",
       "parse_confidence", "parse_comments" >>

RED_FILL == "FFCCCC"

YELLOW_FILL == "FFFACC"

\* row.get(name) or 10, for a confidence that is an int when present.
ConfOr10(row, name) ==
    IF name \in DOMAIN row THEN (IF row[name] = 0 THEN 10 ELSE row[name]) ELSE 10

Min(a, b) == IF a <= b THEN a ELSE b

\* The fill of the whole row, None for no fill.
RowFill(row) ==
    LET t_conf == ConfOr10(row, "transcription_confidence")
        p_conf == ConfOr10(row, "parse_confidence")
        min_conf == Min(t_conf, p_conf)
    IN  IF min_conf <= 3 THEN RED_FILL
        ELSE IF min_conf <= 6 THEN YELLOW_FILL
        ELSE None

\* The fill of the datamatrix_match cell after the mismatch flagging.
MatchCellFill(row) ==
    IF DictGet(row, "datamatrix_match") = PyFalse THEN RED_FILL ELSE RowFill(row)

\* row.get(name, "") for every column.
Cells(row) ==
    [c \in 1..Len(COLUMNS) |-> IF COLUMNS[c] \in DOMAIN row THEN row[COLUMNS[c]] ELSE ""]

\* main calls write_spreadsheet(results, ...) and ends.
WriteSpreadsheet ==
    /\ pcMain = "write"
    /\ sheet' = [k \in 1..Len(results) |->
                    [row |-> results[k], cells |-> Cells(results[k]),
                     fill |-> RowFill(results[k]),
                     match_fill |-> MatchCellFill(results[k])]]
    /\ saved' = saved + 1
    /\ pcMain' = "exit"
    /\ exit_status' = 0
    /\ UNCHANGED << input_dir, batch_size, limit, image_paths, sem, pc, extracted,
                    task_result, completed, results, progress, vision_reply,
                    parse_reply, calls >>
    /\ UNCHANGED << arg, ret >>

(* --------------------------- specification ----------------------------- *)

Next ==
    \/ MainDiscover
    \/ \E i \in Tasks : StartTask(i)
    \/ \E i \in Tasks : \E reply \in VisionReplies : VisionReturn(i, reply)
    \/ \E i \in Tasks : \E reply \in ParseReplies : ParseReturn(i, reply)
    \/ CollectResult
    \/ CollectException
    \/ ProcessAllReturn
    \/ WriteSpreadsheet

Spec == Init /\ [][Next]_vars

\* The event loop runs a ready callback whenever there is one, and every
\* inference call that was issued ends (by returning or by raising).
LiveSpec == Spec /\ WF_vars(Next)

(* ------------- the Filename Correlator called on its own --------------- *)

\* A file name of the correlator's inputs is made of at most this many pieces.
MaxChunks == 4

\* The pieces: the halves of the vendor token (in two cases), digits, others.
Chunks ==
    { <<"D","u","n","n">>, <<"L","a","b">>, <<"l","a","b">>,
      <<"0">>, <<"1">>, <<"0","7">>, <<"_">>, <<".">> }

\* Suffixes of EXTENSIONS.
Suffixes == { <<".","p","n","g">>, <<".","j","p","g">> }

RECURSIVE Concat(_)
\* The pieces joined.
Concat(cs) == IF cs = <<>> THEN <<>> ELSE Head(cs) \o Concat(Tail(cs))

\* Item names: what find_images can return, by name.
ItemNames ==
    Pool \cup
    { Concat(cs) \o ext :
        cs \in UNION {[1..n -> Chunks] : n \in 1..MaxChunks}, ext \in Suffixes }

\* No pipeline runs while a function is called on its own.
PipelineIdle ==
    /\ input_dir = {}
    /\ batch_size = 1
    /\ limit = NoLimit
    /\ exit_status = -1
    /\ image_paths = <<>>
    /\ sem = 0
    /\ pc = <<>>
    /\ extracted = <<>>
    /\ task_result = <<>>
    /\ completed = <<>>
    /\ results = <<>>
    /\ progress = <<>>
    /\ vision_reply = <<>>
    /\ parse_reply = <<>>
    /\ calls = <<>>
    /\ sheet = <<>>
    /\ saved = 0

PipelineVars ==
    << input_dir, batch_size, limit, exit_status, image_paths, sem, pc, extracted,
       task_result, completed, results, progress, vision_reply, parse_reply, calls,
       sheet, saved >>

CorrelatorInit ==
    /\ PipelineIdle
    /\ pcMain = "call"
    /\ arg \in ItemNames
    /\ ret = None

\* filename_integer = extract_integer_from_filename(path.name)
Correlate ==
    /\ pcMain = "call"
    /\ ret' = extract_integer_from_filename(arg)
    /\ pcMain' = "ret"
    /\ UNCHANGED arg
    /\ UNCHANGED PipelineVars

CorrelatorSpec == CorrelatorInit /\ [][Correlate]_vars

(* ------------- the Response Decoder called on its own ------------------ *)

\* A reply text of the decoder's inputs has at most this many pieces.
MaxText == 6

\* The pieces of a reply text: the fence marker, a newline, a space, the
\* format name in two cases, and the text of a JSON object.
\* (the piece FENCE stands for the three backticks)
FENCE == "<fence>"

NL == "\n"

SP == " "

ObjectText == "{}"

Atoms == {FENCE, NL, SP, "json", "JSON", ObjectText}

ReplyTexts == UNION {[1..n -> Atoms] : n \in 0..MaxText}

\* The dict that json.loads makes of ObjectText.
ObjectValue == PyDict(EmptyDict)

Whitespace == {NL, SP}

RECURSIVE LStrip(_)
LStrip(t) == IF t # <<>> /\ Head(t) \in Whitespace THEN LStrip(Tail(t)) ELSE t

RECURSIVE RStrip(_)
RStrip(t) ==
    IF t # <<>> /\ t[Len(t)] \in Whitespace THEN RStrip(SubSeq(t, 1, Len(t) - 1)) ELSE t

\* str.strip()
Strip(t) == RStrip(LStrip(t))

\* t without its first n pieces.
Drop(t, n) == SubSeq(t, n + 1, Len(t))

\* re.sub of ^```\n? (the leading fence without the format name).
StripLeadingFence_NoTag(t) ==
    IF t # <<>> /\ t[1] = FENCE
    THEN LET n == IF Len(t) >= 2 /\ t[2] = NL THEN 2 ELSE 1
         IN  Drop(t, n)
    ELSE t

\* re.sub(r'^```(?:json)?\n?', '', raw)
StripLeadingFence(t) ==
    IF t # <<>> /\ t[1] = FENCE
    THEN LET a == IF Len(t) >= 2 /\ t[2] = "json" THEN 2 ELSE 1
             b == IF Len(t) >= a + 1 /\ t[a + 1] = NL THEN a + 1 ELSE a
         IN  Drop(t, b)
    ELSE t

\* t without the fence that ends at piece e, and the newline before it.
CutFence(t, e) ==
    IF e >= 2 /\ t[e - 1] = NL THEN SubSeq(t, 1, e - 2) ELSE SubSeq(t, 1, e - 1)

\* re.sub(r'\n?```$', '', raw): $ is the end, or just before a final newline.
StripTrailingFence(t) ==
    IF t # <<>> /\ t[Len(t)] = FENCE
    THEN CutFence(t, Len(t))
    ELSE IF Len(t) >= 2 /\ t[Len(t)] = NL /\ t[Len(t) - 1] = FENCE
    THEN CutFence(t, Len(t) - 1) \o <<NL>>
    ELSE t

\* json.loads of a text: whitespace around the value is skipped.
json_loads_text(t) ==
    IF Strip(t) = <<ObjectText>> THEN Returned(ObjectValue) ELSE Raised(JSONDecodeError)

\* extract_from_image from the reply's content to its return.
decode_vision_reply(content) ==
    json_loads_text(StripTrailingFence(StripLeadingFence(Strip(content))))

\* parse_transcription from the reply's content to its return.
decode_parse_reply(content) ==
    json_loads_text(StripTrailingFence(StripLeadingFence(Strip(content))))

DecoderInit ==
    /\ PipelineIdle
    /\ pcMain = "call"
    /\ arg \in ReplyTexts
    /\ ret = None

\* Both stages decode the reply text.
Decode ==
    /\ pcMain = "call"
    /\ ret' = [vision |-> decode_vision_reply(arg), parse |-> decode_parse_reply(arg)]
    /\ pcMain' = "ret"
    /\ UNCHANGED arg
    /\ UNCHANGED PipelineVars

DecoderSpec == DecoderInit /\ [][Decode]_vars

(* ------------------------------- claims -------------------------------- *)

\* process_all and everything before it is over.
RunOver == pcMain \in {"write", "exit"}

\* The replies that are not decodable as a record: not JSON, or not an object.
Malformed == {Replies(PyInvalid), Replies(PyList)}

\* The reply is a transport error or a timeout of the call.
CallFailed(reply) == reply \in {Raises(TransportError), Raises(TimeoutError)}

\* The row of task i as determined by its own path and its own replies alone.
OwnRow(i) ==
    RowOf(image_paths[i], ExtractedOf(vision_reply[i]),
          IF parse_reply[i] = NoReply THEN NoTextSentinel ELSE ParsedOf(parse_reply[i]))

ParsedFields == {"sample_number", "date", "sampling_event", "species", "tissue"}

VisionFields ==
    {"datamatrix_integer", "transcribed_text", "transcription_confidence",
     "transcription_comments"}

\* C1: for a non-empty list of items, whatever the stages do, process_all
\* ends by returning a list with exactly one row per item (as many rows as
\* items, every item collected exactly once).
C1_OneRowPerItem ==
    (RunOver /\ Len(image_paths) > 0) =>
        /\ Len(results) = Len(image_paths)
        /\ \A i \in Tasks : Cardinality({k \in 1..Len(results) : completed[k] = i}) = 1

\* C2: at most batch_size pipelines are between acquiring and releasing the
\* semaphore (each has one inference call in flight, vision or parse), and
\* the slots taken are exactly those of the pipelines in flight, so a
\* pipeline keeps its slot while it is in either stage.
C2_AtMostKInFlight ==
    /\ Cardinality(InFlight) <= batch_size
    /\ pcMain = "process_all" => sem = batch_size - Cardinality(InFlight)

\* C2 witness: more items than slots, every slot taken, one pipeline in its
\* second stage while another waits for a slot.
C2_Witness ==
    /\ Len(image_paths) > batch_size
    /\ Cardinality(InFlight) = batch_size
    /\ \E i, j \in Tasks : pc[i] = "parse" /\ pc[j] = "waiting"

\* C3: an item whose vision call fails with a transport error or a timeout
\* never gets a parse call and its row has transcription_confidence 0,
\* datamatrix_integer and transcribed_text null and a non-empty comment that
\* embeds the error; and every collected row is the row its own item's path
\* and replies determine, whatever happened to the other items.
C3_VisionFailureIsolated ==
    /\ \A i \in Tasks : CallFailed(vision_reply[i]) =>
          /\ calls[i].parse = 0
          /\ parse_reply[i] = NoReply
          /\ pc[i] = "returned"
          /\ task_result[i]["transcription_confidence"] = 0
          /\ task_result[i]["datamatrix_integer"] = None
          /\ task_result[i]["transcribed_text"] = None
          /\ task_result[i]["transcription_comments"] # ""
          /\ task_result[i]["transcription_comments"]
                = "Extraction failed: " \o vision_reply[i].err
    /\ \A k \in 1..Len(results) : results[k] = OwnRow(completed[k])

\* C3 witness: two rows collected, one of an item whose vision call timed
\* out, one of an item both of whose stages succeeded.
C3_Witness ==
    /\ Len(results) = 2
    /\ \E i, j \in Tasks :
          /\ vision_reply[i] = Raises(TimeoutError)
          /\ vision_reply[j].kind = "reply"
          /\ parse_reply[j].kind = "reply"
          /\ results[2] = task_result[i]
          /\ results[1] = task_result[j]

\* C4: a malformed reply (not JSON, or JSON that is not an object) of either
\* stage never escapes process_one as an exception, so it never aborts
\* process_all.
C4_MalformedNeverEscapes ==
    \A i \in Tasks :
        (vision_reply[i] \in Malformed \/ parse_reply[i] \in Malformed) =>
            pc[i] # "raised"

\* C5: an item whose vision result has transcribed_text null, missing or
\* empty never gets a parse call and its row carries the no-text sentinel;
\* and a parse call is issued only for a non-null, non-empty text.
C5_NoTextNoParse ==
    \A i \in Tasks :
        /\ (extracted[i].kind = "dict"
              /\ DictGet(extracted[i].items, "transcribed_text") \in {None, ""}) =>
              /\ calls[i].parse = 0
              /\ parse_reply[i] = NoReply
              /\ pc[i] = "returned"
              /\ \A f \in ParsedFields : task_result[i][f] = None
              /\ task_result[i]["notes"] = ""
              /\ task_result[i]["parse_confidence"] = 0
              /\ task_result[i]["parse_comments"] = "No transcribed text to parse."
        /\ (calls[i].parse > 0 \/ parse_reply[i] # NoReply) =>
              /\ extracted[i].kind = "dict"
              /\ "transcribed_text" \in DOMAIN extracted[i].items
              /\ extracted[i].items["transcribed_text"] \notin {None, ""}

\* C5 witness: a collected row of an item whose vision reply has an empty
\* transcribed_text, beside an item that did get its parse call.
C5_Witness ==
    \E i, j \in Tasks :
        /\ extracted[i].kind = "dict"
        /\ DictGet(extracted[i].items, "transcribed_text") = ""
        /\ Len(results) > 0
        /\ results[1] = task_result[i]
        /\ calls[j].parse = 1

\* C6: the datamatrix_match computed from the filename identifier and the
\* model's identifier is true iff both are present and equal, false iff
\* both are present and unequal, unknown iff either is absent; the row shows
\* it whenever no reply carries a key of that name.
C6_TriStateMatch ==
    \A i \in Tasks : pc[i] = "returned" =>
        LET fn == task_result[i]["filename_integer"]
            dm == DictGet(extracted[i].items, "datamatrix_integer")
            m  == DatamatrixMatch(dm, fn)
            parsed == IF parse_reply[i] = NoReply THEN EmptyDict
                      ELSE ParsedOf(parse_reply[i]).items
        IN  /\ (m = PyTrue) <=> (dm # None /\ fn # None /\ dm = fn)
            /\ (m = PyFalse) <=> (dm # None /\ fn # None /\ dm # fn)
            /\ (m = None) <=> (dm = None \/ fn = None)
            /\ m \in {PyTrue, PyFalse, None}
            /\ "datamatrix_match" \notin (DOMAIN extracted[i].items) \cup (DOMAIN parsed)
                  => task_result[i]["datamatrix_match"] = m

\* C6 witness: a row whose match is true beside a row whose match is
\* unknown because the file name has no digits while the model gave one.
C6_Witness ==
    \E i, j \in Tasks :
        /\ pc[i] = "returned" /\ pc[j] = "returned"
        /\ task_result[i]["datamatrix_match"] = PyTrue
        /\ task_result[j]["datamatrix_match"] = None
        /\ task_result[j]["filename_integer"] = None
        /\ task_result[j]["datamatrix_integer"] = "42"

\* The exceptions parse_transcription raises: transport, timeout, decoding.
ParseFailed(reply) ==
    reply \in {Raises(TransportError), Raises(TimeoutError), Replies(PyInvalid)}

\* The row of task i before the parsed fields are merged into it.
VisionPart(i) ==
    DictMerge(
        [image_file |-> PathStr[image_paths[i]],
         filename_integer |-> FilenameInteger[image_paths[i]],
         datamatrix_match |->
            DatamatrixMatch(DictGet(extracted[i].items, "datamatrix_integer"),
                            FilenameInteger[image_paths[i]])],
        extracted[i].items)

\* C7: when parse_transcription raises (transport error, timeout, reply that
\* is not JSON) the task still returns its row, with parse_confidence 0,
\* all parsed fields null and a parse_comments embedding the error, and the
\* vision-stage fields and datamatrix_match are those obtained before the
\* parse call.
C7_ParseFailureContained ==
    \A i \in Tasks : ParseFailed(parse_reply[i]) =>
        /\ pc[i] = "returned"
        /\ task_result[i]["parse_confidence"] = 0
        /\ \A f \in ParsedFields : task_result[i][f] = None
        /\ task_result[i]["notes"] = ""
        /\ task_result[i]["parse_comments"]
              = "Parsing failed: " \o
                  (IF parse_reply[i].kind = "raise" THEN parse_reply[i].err
                   ELSE JSONDecodeError)
        /\ \A f \in VisionFields \cup {"datamatrix_match"} :
              f \in DOMAIN VisionPart(i) => task_result[i][f] = VisionPart(i)[f]
        /\ \A f \in VisionFields :
              f \in DOMAIN extracted[i].items
                  => task_result[i][f] = ExtractedOf(vision_reply[i]).items[f]

\* C7 witness: a collected row of an item whose vision call succeeded with
\* confidence 9 and whose parse reply was not JSON.
C7_Witness ==
    \E i \in Tasks :
        /\ parse_reply[i] = Replies(PyInvalid)
        /\ Len(results) > 0
        /\ results[1] = task_result[i]
        /\ results[1]["transcription_confidence"] = 9
        /\ results[1]["parse_confidence"] = 0

\* C8: one progress notification per completed item: the k-th carries k out
\* of the number of items and names the k-th item to complete, and when
\* process_all is over every completed item has had its notification.
C8_ProgressPerCompletedItem ==
    /\ \A k \in 1..Len(progress) :
          /\ progress[k].n = k
          /\ progress[k].total = Len(image_paths)
          /\ progress[k].image_file = PathStr[image_paths[completed[k]]]
    /\ RunOver => Len(progress) = Len(completed)

\* The smaller of the two confidence scores of a row.
MinConfidence(row) == Min(row["transcription_confidence"], row["parse_confidence"])

\* Both confidence scores of the row are integers in 0..10.
HasScores(row) ==
    /\ "transcription_confidence" \in DOMAIN row
    /\ "parse_confidence" \in DOMAIN row
    /\ row["transcription_confidence"] \in 0..10
    /\ row["parse_confidence"] \in 0..10

\* C9: a row with both scores in 0..10 is filled red when the minimum of
\* the two is <= 3, yellow when it is in 4..6, and not filled otherwise.
C9_FillByMinConfidence ==
    \A k \in 1..Len(sheet) : HasScores(sheet[k].row) =>
        sheet[k].fill = IF MinConfidence(sheet[k].row) <= 3 THEN RED_FILL
                        ELSE IF MinConfidence(sheet[k].row) <= 6 THEN YELLOW_FILL
                        ELSE None

\* C10: the run aborts exactly when no image is discovered: then nothing is
\* scheduled, no call is issued, the status is non-zero and no report is
\* written; otherwise the report is written.
C10_AbortsOnlyWhenEmpty ==
    pcMain = "exit" =>
        IF input_dir = {}
        THEN exit_status # 0 /\ saved = 0 /\ Tasks = {} /\ results = <<>>
        ELSE exit_status = 0 /\ saved = 1

RECURSIVE TakeDigits(_, _)
\* The digits of s from position p up to the first character that is none.
TakeDigits(s, p) ==
    IF p > Len(s) \/ s[p] \notin Digits THEN <<>> ELSE <<s[p]>> \o TakeDigits(s, p + 1)

RECURSIVE StripZeros(_)
\* The digits without their leading zeros (an all-zero run keeps its last).
StripZeros(d) == IF Len(d) > 1 /\ Head(d) = "0" THEN StripZeros(Tail(d)) ELSE d

\* The vendor token, in either case, stands at position p of the name.
TokenAt(name, p) ==
    /\ p + Len(VendorToken) - 1 <= Len(name)
    /\ \A j \in 1..Len(VendorToken) : Lower(name[p + j - 1]) = VendorToken[j]

Least(S) == CHOOSE p \in S : \A q \in S : p <= q

\* C11: for every item name the correlator returns: the digits that follow
\* the (first) vendor token followed by digits, without leading zeros, even
\* when other digits come earlier in the name; else the first run of digits
\* of the name; else none. The three names of the specification give "187",
\* "42" and none.
C11_TwoTierIdentifier ==
    pcMain = "ret" =>
        LET vend == {p \in 1..Len(arg) :
                        /\ TokenAt(arg, p)
                        /\ TakeDigits(arg, p + Len(VendorToken)) # <<>>}
            digs == {p \in 1..Len(arg) : arg[p] \in Digits}
        IN  /\ ret = IF vend # {}
                     THEN Str(StripZeros(TakeDigits(arg, Least(vend) + Len(VendorToken))))
                     ELSE IF digs # {} THEN Str(TakeDigits(arg, Least(digs)))
                     ELSE None
            /\ Str(arg) = "DunnLab000187.jpg" => ret = "187"
            /\ Str(arg) = "vial_42_after.png" => ret = "42"
            /\ Str(arg) = "nocode.png" => ret = None

\* C11 witness: a name with a digit before the vendor token and a zero and
\* a digit after it has given the digit after the token.
C11_Witness ==
    /\ pcMain = "ret"
    /\ Str(arg) = "1Dunnlab07.png"
    /\ ret = "7"

\* The reply text (spaces and newlines around it aside) is a record wrapped
\* in a fenced block whose leading marker has no format name or one of tags:
\* the texts that can be its inner text.
InnerTexts(raw, tags) ==
    LET t == Strip(raw)
    IN  IF Len(t) >= 2 /\ t[1] = FENCE /\ t[Len(t)] = FENCE
        THEN {inner \in {SubSeq(t, 2, Len(t) - 1)}
                          \cup (IF Len(t) >= 3 /\ t[2] \in tags
                                THEN {SubSeq(t, 3, Len(t) - 1)} ELSE {}) :
                json_loads_text(inner).ok}
        ELSE {}

\* Both stages decode a record wrapped in a fence with a format name of tags
\* to what they decode its inner text to, and a text with no fence marker to
\* what json.loads makes of the text itself.
FenceStrippingIsNoOp(tags) ==
    pcMain = "ret" =>
        /\ \A inner \in InnerTexts(arg, tags) :
              /\ ret.vision = decode_vision_reply(inner)
              /\ ret.parse = decode_parse_reply(inner)
              /\ ret.vision = Returned(ObjectValue)
        /\ (\A k \in 1..Len(arg) : arg[k] # FENCE) =>
              /\ ret.vision = json_loads_text(arg)
              /\ ret.parse = json_loads_text(arg)

\* C12 (as claimed): a record wrapped in a fenced block, the leading marker
\* optionally tagged with a format name (json or JSON here), is decoded by
\* both stages to what its inner text is decoded to; a reply without fences
\* is decoded unchanged.
C12_FenceStrippingAnyTag == FenceStrippingIsNoOp({"json", "JSON"})

\* C12 (amended): the same with the format name json, in lower case, the
\* only one the pattern strips.
C12_FenceStrippingJsonTag == FenceStrippingIsNoOp({"json"})

\* C12 witness: the record in a fence tagged json, newlines after the
\* leading marker and before the trailing one, has been decoded.
C12_Witness ==
    /\ pcMain = "ret"
    /\ arg = <<FENCE, "json", NL, ObjectText, NL, FENCE>>
    /\ ret.vision = Returned(ObjectValue)
    /\ ret.parse = Returned(ObjectValue)

\* C13: with a concurrency limit of at least 1 and every call ending,
\* process_all, once entered, eventually returns to main with every item's
\* pipeline completed and every slot of the semaphore released.
C13_EventuallyReturnsComplete ==
    (pcMain = "process_all" /\ batch_size >= 1) ~>
        /\ pcMain = "write"
        /\ Len(results) = Len(image_paths)
        /\ \A i \in Tasks : pc[i] = "returned"
        /\ sem = batch_size

\* The vision stage of task i is over and failed (the call or the decoding
\* of its reply raised).
VisionFailed(i) ==
    /\ vision_reply[i] # NoReply
    /\ ~extract_from_image(vision_reply[i]).ok

\* C14: an item issues at most one vision call and at most one parse call,
\* one after the other: no parse call is issued before the vision call has
\* returned a decodable reply, so never after a failed vision stage, and no
\* call of either stage is issued again once it has ended, failed or not.
C14_AtMostTwoSequentialCalls ==
    \A i \in Tasks :
        /\ calls[i].vision <= 1
        /\ calls[i].parse <= 1
        /\ pc[i] = "vision" => (calls[i] = [vision |-> 1, parse |-> 0]
                                /\ vision_reply[i] = NoReply)
        /\ pc[i] = "parse" => (calls[i] = [vision |-> 1, parse |-> 1]
                               /\ parse_reply[i] = NoReply)
        /\ calls[i].parse = 1 =>
              /\ calls[i].vision = 1
              /\ vision_reply[i] # NoReply
              /\ extract_from_image(vision_reply[i]).ok
        /\ VisionFailed(i) => (calls[i].parse = 0 /\ pc[i] \notin {"vision", "parse"})
        /\ parse_reply[i] # NoReply =>
              (calls[i] = [vision |-> 1, parse |-> 1] /\ pc[i] \notin {"vision", "parse"})

\* C14 witness: one item has made both calls, the second of which failed,
\* and another item's vision call failed and was the only call it made.
C14_Witness ==
    \E i, j \in Tasks :
        /\ pc[i] = "returned"
        /\ calls[i] = [vision |-> 1, parse |-> 1]
        /\ CallFailed(parse_reply[i])
        /\ pc[j] = "returned"
        /\ CallFailed(vision_reply[j])
        /\ calls[j] = [vision |-> 1, parse |-> 0]

\* C15: the result list is in completion order: its k-th row is the row
\* returned by the k-th pipeline that finished, whatever the items' order
\* in image_paths.
C15_CompletionOrder ==
    /\ Len(results) <= Len(completed)
    /\ \A k \in 1..Len(results) :
          /\ pc[completed[k]] = "returned"
          /\ results[k] = task_result[completed[k]]

\* C15 witness: process_all has returned two rows, the second item's first
\* because its pipeline finished first.
C15_Witness ==
    /\ pcMain = "write"
    /\ completed = <<2, 1>>
    /\ Len(results) = 2
    /\ results[1] = task_result[2]
    /\ results[1] # task_result[1]

\* C16: the result list is append-only and has a single writer: every step
\* leaves it unchanged or is a step of the coordinating loop (no pipeline
\* moves in it) that appends, at the end, the row of the pipeline that just
\* finished; the rows already in it stay as and where they are.
C16_AppendOnlySingleWriter ==
    [][ \/ results' = results
        \/ /\ pcMain = "process_all"
           /\ Len(results) < Len(completed)
           /\ results' = Append(results, task_result[NextCompleted])
           /\ SubSeq(results', 1, Len(results)) = results
           /\ pc' = pc
           /\ task_result' = task_result
           /\ completed' = completed ]_vars

\* C16 witness: the loop has appended two different rows, one per
\* iteration, and printed a progress line for each.
C16_Witness ==
    /\ Len(results) = 2
    /\ results[1] # results[2]
    /\ completed = <<1, 2>>
    /\ Len(progress) = 2

\* Every item's pipeline has returned its row and the loop has collected it.
AllCollected ==
    /\ Len(results) = Len(image_paths)
    /\ \A i \in Tasks : pc[i] = "returned"
    /\ InFlight = {}

C18_LimitIsPrefix ==
    (pcMain # "start" /\ limit.given /\ limit.n >= 0 /\ input_dir # {}) =>
        /\ image_paths = SubSeq(Sorted(input_dir), 1, Min(limit.n, Cardinality(input_dir)))
        /\ DOMAIN pc = 1..Min(limit.n, Cardinality(input_dir))

\* The row of task i has the fields the pipeline computes for it.
PipelineFieldsKept(i) ==
    LET row == task_result[i]
        path == image_paths[i]
        ex == extracted[i].items
    IN  /\ row["image_file"] = PathStr[path]
        /\ row["filename_integer"] = FilenameInteger[path]
        /\ row["datamatrix_match"]
              = DatamatrixMatch(DictGet(ex, "datamatrix_integer"), FilenameInteger[path])
        /\ \A f \in VisionFields \cap DOMAIN ex : row[f] = ex[f]

\* C19: whatever keys the decoded replies contain, the row of every item
\* has its own path as image_file, the identifier derived from its file name
\* as filename_integer, the tri-state value of the two identifiers as
\* datamatrix_match, and the vision-stage fields as the vision stage
\* returned them.
C19_PipelineFieldsIndependent ==
    \A i \in Tasks : pc[i] = "returned" => PipelineFieldsKept(i)

====
